---- MODULE Spec2Model ----
(***************************************************************************)
(* Locale resolution of the barbacane.dev website: the translator          *)
(* (useTranslations / t / getNestedValue), the URL locale extractor        *)
(* (getLocaleFromUrl) and the locale check (isValidLocale) of              *)
(* src/i18n/index.ts, and the routing policy that the build applies to the *)
(* i18n, sitemap and redirects settings of astro.config.                   *)
(*                                                                         *)
(* JavaScript strings are sequences of units.  A unit is either a          *)
(* separator ("." in a key, "/" in a path) or an indivisible run of other  *)
(* characters ("a", "constructor", "fr", "pricing"), so that String.split  *)
(* is computed on the sequence and string equality is sequence equality.   *)
(*                                                                         *)
(* JavaScript values are records [kind, str, props, proto]: kind is the    *)
(* sort of the value, str the text of a string, props the own properties   *)
(* of an object and proto whether the object inherits from                 *)
(* Object.prototype (every object built from a JSON document or an object  *)
(* literal does).                                                          *)
(***************************************************************************)
EXTENDS Naturals, Sequences, FiniteSets, TLC

VARIABLES
    translations,   \* the module-level bundle: an object, locale code -> dictionary
    dict,           \* the dictionary captured by the closure useTranslations returned
    tLocale,        \* the argument of the last useTranslations call
    key,            \* the argument of the last t call
    result,         \* what the last t call returned
    pathname,       \* url.pathname of the last getLocaleFromUrl call
    urlLocale,      \* what the last getLocaleFromUrl call returned
    pc              \* where the single-threaded caller stands: "start" (no
                    \* closure yet), "ready" (a closure t is held), "returned"
                    \* (t has just returned), "url" (getLocaleFromUrl has just
                    \* returned), "valid" (isValidLocale has just returned),
                    \* "walked" (getNestedValue has just returned),
                    \* "built" (a build has ended), "served" (a request has
                    \* been answered)

VARIABLES
    code,           \* the argument of the last isValidLocale call
    valid           \* what the last isValidLocale call returned

registryVars == <<code, valid>>

VARIABLES
    legacyRedirects,    \* RoutePolicyConfig.legacyRedirects: source path -> target path
    pages,              \* the logical pages the content pipeline hands to the build
    buildStatus,        \* "pending", "ok" or "failed"
    redirectTable,      \* the flattened redirect table the build emitted
    sitemap,            \* the alternate-link / sitemap entries the build emitted
    warnings,           \* the consistency warnings the build reported
    routes,             \* the page URLs the build generated
    reqPath,            \* the path of the last request
    response,           \* how the last request was answered
    hops                \* how many redirects the client has followed since its request

routeVars == <<legacyRedirects, pages, buildStatus, redirectTable, sitemap,
               warnings, routes, reqPath, response, hops>>

VARIABLES
    workers             \* the render workers: for each its place, the closure it
                        \* holds, the arguments of its last call and what it returned

vars == <<translations, dict, tLocale, key, result, pathname, urlLocale, pc,
          registryVars, routeVars, workers>>

-----------------------------------------------------------------------------
(* Bounds *)

MaxKeyLen == 4
MaxPathLen == 4
MaxCodeLen == 3
MaxHops == 3

-----------------------------------------------------------------------------
(* JavaScript values *)

NoProps == [n \in {} |-> 0]

Undefined == [kind |-> "undefined", str |-> <<>>, props |-> NoProps, proto |-> FALSE]
Null == [kind |-> "null", str |-> <<>>, props |-> NoProps, proto |-> FALSE]
FunctionValue == [kind |-> "function", str |-> <<>>, props |-> NoProps, proto |-> FALSE]
Str(s) == [kind |-> "string", str |-> s, props |-> NoProps, proto |-> FALSE]
Obj(f) == [kind |-> "object", str |-> <<>>, props |-> f, proto |-> TRUE]

\* Object.prototype: its own "constructor" is the function Object, its own
\* "__proto__" accessor reads the prototype of the receiver.
ObjectPrototype ==
    [kind |-> "object", str |-> <<>>,
     props |-> (<<"constructor">> :> FunctionValue @@ <<"__proto__">> :> Null),
     proto |-> FALSE]

\* typeof v
TypeOf(v) ==
    CASE v.kind = "null" -> "object"
      [] OTHER -> v.kind

\* ToBoolean(v): undefined, null and the empty string are falsy
Truthy(v) ==
    CASE v.kind = "undefined" -> FALSE
      [] v.kind = "null" -> FALSE
      [] v.kind = "string" -> v.str # <<>>
      [] OTHER -> TRUE

\* k in v, for an object v: own properties, then the prototype chain
HasProperty(v, k) ==
    \/ k \in DOMAIN v.props
    \/ v.proto /\ k \in DOMAIN ObjectPrototype.props

\* v[k], for an object v
Get(v, k) ==
    IF k \in DOMAIN v.props /\ k # <<"__proto__">> THEN v.props[k]
    ELSE IF k = <<"__proto__">>
         THEN (IF v.proto THEN ObjectPrototype ELSE Null)
    ELSE IF v.proto /\ k \in DOMAIN ObjectPrototype.props
         THEN ObjectPrototype.props[k]
    ELSE Undefined

\* String.prototype.split(sep): the pieces between the separators, in order;
\* the empty string splits into one empty piece
RECURSIVE SplitAcc(_, _, _, _)
SplitAcc(s, sep, cur, acc) ==
    IF s = <<>> THEN Append(acc, cur)
    ELSE IF Head(s) = sep THEN SplitAcc(Tail(s), sep, <<>>, Append(acc, cur))
    ELSE SplitAcc(Tail(s), sep, Append(cur, Head(s)), acc)

split(s, sep) == SplitAcc(s, sep, <<>>, <<>>)

-----------------------------------------------------------------------------
(* Locale registry *)

LOCALES == << <<"en">>, <<"fr">>, <<"de">>, <<"es">> >>

LocaleSet == {LOCALES[i] : i \in 1..Len(LOCALES)}

DEFAULT_LOCALE == <<"en">>

\* LOCALE_NAMES: locale code -> display name
LOCALE_NAMES ==
    <<"en">> :> <<"English">> @@ <<"fr">> :> <<"Français">> @@ <<"de">> :> <<"Deutsch">>
    @@ <<"es">> :> <<"Español">>

\* Array.prototype.includes(v): some element is the same value
includes(arr, v) == \E i \in 1..Len(arr) : v = Str(arr[i])

-----------------------------------------------------------------------------
(* Inputs: dictionaries, locale arguments, keys *)

KeyUnits == {"a", ".", "constructor"}
LeafStrings == {<<>>, <<"x">>, <<"y">>}
TopNames == {<<"a">>, <<"constructor">>}
SubNames == {<<"a">>}

RECURSIVE SeqsUpTo(_, _)
SeqsUpTo(S, n) ==
    IF n = 0 THEN {<<>>}
    ELSE LET shorter == SeqsUpTo(S, n - 1)
         IN  shorter \cup {Append(s, u) : s \in {x \in shorter : Len(x) = n - 1}, u \in S}

Keys == SeqsUpTo(KeyUnits, MaxKeyLen)

LeafValues == {Str(s) : s \in LeafStrings} \cup {Null}

ObjectsOver(names, values) ==
    {Obj(f) : f \in UNION {[D -> values] : D \in SUBSET names}}

SubTrees == ObjectsOver(SubNames, LeafValues)

\* One locale's dictionary: "a" holds a leaf or a nested mapping, the other
\* top-level name holds a string.
Dictionaries ==
    {d \in ObjectsOver(TopNames, LeafValues \cup SubTrees) :
        \A n \in DOMAIN d.props :
            n # <<"a">> => d.props[n] = Str(<<"x">>)}

DeDictionary == Obj(<<"a">> :> Obj(<<"a">> :> Str(<<"y">>)))
EsDictionary == Obj(NoProps)

Bundles ==
    {Obj(<<"en">> :> en @@ <<"fr">> :> fr @@ <<"de">> :> DeDictionary
          @@ <<"es">> :> EsDictionary) :
        en \in Dictionaries, fr \in Dictionaries}

\* Locale arguments: the registered codes, an unknown code, and two names every
\* object inherits from Object.prototype
LocaleArgs == LocaleSet \cup {<<"xx">>, <<"constructor">>, <<"__proto__">>}

-----------------------------------------------------------------------------
(* Translator *)

RECURSIVE getNestedValue(_, _)
getNestedValue(obj, keys) ==
    IF keys = <<>> THEN obj
    ELSE IF Truthy(obj) /\ TypeOf(obj) = "object" /\ HasProperty(obj, Head(keys))
         THEN getNestedValue(Get(obj, Head(keys)), Tail(keys))
    ELSE Undefined

\* const dict = translations[locale] || translations[DEFAULT_LOCALE]
useTranslations(locale) ==
    LET own == Get(translations, locale)
    IN  IF Truthy(own) THEN own ELSE Get(translations, DEFAULT_LOCALE)

\* t with the key looked up as one property name, never split on "."
t_NoSplit(d, k) ==
    LET keys == <<k>>
        first == getNestedValue(d, keys)
        res == IF first = Undefined
               THEN getNestedValue(Get(translations, DEFAULT_LOCALE), keys)
               ELSE first
    IN  IF TypeOf(res) = "string" THEN res ELSE Str(k)

\* t with the empty string, not the key, as the last resort
t_EmptyOnMiss(d, k) ==
    LET keys == split(k, ".")
        first == getNestedValue(d, keys)
        res == IF first = Undefined
               THEN getNestedValue(Get(translations, DEFAULT_LOCALE), keys)
               ELSE first
    IN  IF TypeOf(res) = "string" THEN res ELSE Str(<<>>)

\* t that looks the key up in the default dictionary before its own
t_DefaultFirst(d, k) ==
    LET keys == split(k, ".")
        first == getNestedValue(Get(translations, DEFAULT_LOCALE), keys)
        res == IF first = Undefined
               THEN getNestedValue(d, keys)
               ELSE first
    IN  IF TypeOf(res) = "string" THEN res ELSE Str(k)

\* t with a second fallback, to the French dictionary, before giving up
t_SecondFallback(d, k) ==
    LET keys == split(k, ".")
        first == getNestedValue(d, keys)
        second == IF first = Undefined
                  THEN getNestedValue(Get(translations, DEFAULT_LOCALE), keys)
                  ELSE first
        res == IF second = Undefined
               THEN getNestedValue(Get(translations, <<"fr">>), keys)
               ELSE second
    IN  IF TypeOf(res) = "string" THEN res ELSE Str(k)

\* the closure t(key) over dict d
t(d, k) ==
    LET keys == split(k, ".")
        first == getNestedValue(d, keys)
        res == IF first = Undefined
               THEN getNestedValue(Get(translations, DEFAULT_LOCALE), keys)
               ELSE first
    IN  IF TypeOf(res) = "string" THEN res ELSE Str(k)

-----------------------------------------------------------------------------
(* URL locale extractor *)

PathUnits == {"/", "en", "fr", "de", "es", "xx", "pricing"}

Paths == SeqsUpTo(PathUnits, MaxPathLen)

\* getLocaleFromUrl destructuring the first piece: const [locale] = ...
getLocaleFromUrl_FirstPiece(path) ==
    LET parts == split(path, "/")
        locale == IF Len(parts) >= 1 THEN Str(parts[1]) ELSE Undefined
    IN  IF includes(LOCALES, locale) THEN locale ELSE Str(DEFAULT_LOCALE)

\* getLocaleFromUrl trusting the piece: return locale || DEFAULT_LOCALE
getLocaleFromUrl_NoCheck(path) ==
    LET parts == split(path, "/")
        locale == IF Len(parts) >= 2 THEN Str(parts[2]) ELSE Undefined
    IN  IF Truthy(locale) THEN locale ELSE Str(DEFAULT_LOCALE)

\* const [, locale] = url.pathname.split('/'): the second piece, undefined
\* when there is none
getLocaleFromUrl(path) ==
    LET parts == split(path, "/")
        locale == IF Len(parts) >= 2 THEN Str(parts[2]) ELSE Undefined
    IN  IF includes(LOCALES, locale) THEN locale ELSE Str(DEFAULT_LOCALE)

-----------------------------------------------------------------------------
(* Locale validity *)

CodeUnits == {"en", "fr", "de", "es", "FR", "-FR", "xx"}

Codes == SeqsUpTo(CodeUnits, MaxCodeLen)

\* isValidLocale matching the language part only: "fr-FR" passes as "fr"
isValidLocale_IgnoreRegion(locale) ==
    locale # <<>> /\ includes(LOCALES, Str(<<Head(locale)>>))

\* return LOCALES.includes(locale as Locale)
isValidLocale(locale) == includes(LOCALES, Str(locale))

RegistryIdle ==
    /\ code = <<>>
    /\ valid = FALSE

-----------------------------------------------------------------------------
(* Routing configuration (astro.config): the values the build is given *)

\* a routing configuration that lags behind the registry by one locale
i18nLocales_NoSpanish == << <<"en">>, <<"fr">>, <<"de">> >>

i18nLocales == << <<"en">>, <<"fr">>, <<"de">>, <<"es">> >>

i18nDefaultLocale == <<"en">>

prefixDefaultLocale_Off == FALSE

prefixDefaultLocale == TRUE

redirectToDefaultLocale_Off == FALSE

redirectToDefaultLocale == TRUE

\* the redirects of all four locale folders, the default locale's too
redirects_AllLocales ==
    <<"/", "en", "/", "trademarks">> :> <<"/", "trademarks">>
    @@ <<"/", "fr", "/", "trademarks">> :> <<"/", "trademarks">>
    @@ <<"/", "de", "/", "trademarks">> :> <<"/", "trademarks">>
    @@ <<"/", "es", "/", "trademarks">> :> <<"/", "trademarks">>

\* redirects with an entry that leads back to a source
redirects_Loop ==
    <<"/", "fr", "/", "trademarks">> :> <<"/", "trademarks">>
    @@ <<"/", "de", "/", "trademarks">> :> <<"/", "trademarks">>
    @@ <<"/", "es", "/", "trademarks">> :> <<"/", "trademarks">>
    @@ <<"/", "trademarks">> :> <<"/", "fr", "/", "trademarks">>

redirects ==
    <<"/", "fr", "/", "trademarks">> :> <<"/", "trademarks">>
    @@ <<"/", "de", "/", "trademarks">> :> <<"/", "trademarks">>
    @@ <<"/", "es", "/", "trademarks">> :> <<"/", "trademarks">>

sitemapDefaultLocale == <<"en">>

\* a sitemap that announces regional hreflang values
sitemapLocales_Regional ==
    <<"en">> :> <<"en-US">> @@ <<"fr">> :> <<"fr-FR">> @@ <<"de">> :> <<"de-DE">>
    @@ <<"es">> :> <<"es-ES">>

\* sitemap i18n.locales: locale code -> hreflang
sitemapLocales ==
    <<"en">> :> <<"en">> @@ <<"fr">> :> <<"fr">> @@ <<"de">> :> <<"de">>
    @@ <<"es">> :> <<"es">>

-----------------------------------------------------------------------------
(* Routing policy: URLs, redirect rules, alternate links, build checks *)

I18nLocaleSet == {i18nLocales[i] : i \in 1..Len(i18nLocales)}

\* the logical pages of the site: the home page, pricing, trademarks
PageUniverse == {<<>>, <<"pricing">>, <<"trademarks">>}

\* /<locale>/<page>
LocalizedUrl(locale, page) == <<"/">> \o locale \o <<"/">> \o page

\* /<page>
BareUrl(page) == <<"/">> \o page

\* the concrete URL of a page in a locale
PageUrl(locale, page) ==
    IF prefixDefaultLocale \/ locale # i18nDefaultLocale
    THEN LocalizedUrl(locale, page)
    ELSE BareUrl(page)

GeneratedRoutes(ps) == {PageUrl(l, p) : l \in I18nLocaleSet, p \in ps}

\* the default-locale rule: /<page> -> /<defaultLocale>/<page>
DefaultRules(ps) ==
    IF prefixDefaultLocale /\ redirectToDefaultLocale
    THEN {[source |-> BareUrl(p), target |-> LocalizedUrl(i18nDefaultLocale, p),
           type |-> "default-locale"] : p \in ps}
    ELSE {}

\* the explicit entries, as they stand
LegacyRules(legacy) ==
    {[source |-> src, target |-> legacy[src], type |-> "legacy"] : src \in DOMAIN legacy}

AllRules(legacy, ps) == DefaultRules(ps) \cup LegacyRules(legacy)

\* two rules give different targets for one source
Conflicting(rules) ==
    \E r1 \in rules, r2 \in rules : r1.source = r2.source /\ r1.target # r2.target

\* the sitemap's locales are not the locales pages are compiled for
SitemapLocaleDrift ==
    \/ DOMAIN sitemapLocales # I18nLocaleSet
    \/ sitemapDefaultLocale # i18nDefaultLocale

\* a build that never looks for conflicting rules
BuildFails_NoConflictCheck(legacy, ps) == SitemapLocaleDrift

\* the fatal build-time conditions
BuildFails(legacy, ps) ==
    Conflicting(AllRules(legacy, ps)) \/ SitemapLocaleDrift

\* one entry per locale and one x-default entry, for every logical page
SitemapEntries(ps) ==
    {[page |-> p, locale |-> l, hreflang |-> sitemapLocales[l], href |-> PageUrl(l, p)] :
        l \in DOMAIN sitemapLocales, p \in ps}
    \cup {[page |-> p, locale |-> sitemapDefaultLocale, hreflang |-> <<"x-default">>,
           href |-> PageUrl(sitemapDefaultLocale, p)] : p \in ps}

\* a build that checks nothing about the targets
LegacyWarnings_Silent(legacy, ps) == {}

\* the legacy entries whose target is no generated page
LegacyWarnings(legacy, ps) ==
    {src \in DOMAIN legacy : legacy[src] \notin GeneratedRoutes(ps)}

NoResponse == [kind |-> "none", target |-> <<>>, via |-> "none"]

RuleFor(table, path, type) ==
    CHOOSE r \in table : r.source = path /\ r.type = type

HasRule(table, path, type) ==
    \E r \in table : r.source = path /\ r.type = type

\* a request answered with the default-locale rule tried before the legacy entries
Resolve_DefaultFirst(table, rts, path) ==
    IF HasRule(table, path, "default-locale")
    THEN [kind |-> "redirect", target |-> RuleFor(table, path, "default-locale").target,
          via |-> "default-locale"]
    ELSE IF HasRule(table, path, "legacy")
    THEN [kind |-> "redirect", target |-> RuleFor(table, path, "legacy").target,
          via |-> "legacy"]
    ELSE IF path \in rts
    THEN [kind |-> "page", target |-> path, via |-> "none"]
    ELSE [kind |-> "not-found", target |-> <<>>, via |-> "none"]

\* how a request is answered: a legacy entry first, then the default-locale
\* rule, then a generated page
Resolve(table, rts, path) ==
    IF HasRule(table, path, "legacy")
    THEN [kind |-> "redirect", target |-> RuleFor(table, path, "legacy").target,
          via |-> "legacy"]
    ELSE IF HasRule(table, path, "default-locale")
    THEN [kind |-> "redirect", target |-> RuleFor(table, path, "default-locale").target,
          via |-> "default-locale"]
    ELSE IF path \in rts
    THEN [kind |-> "page", target |-> path, via |-> "none"]
    ELSE [kind |-> "not-found", target |-> <<>>, via |-> "none"]

-----------------------------------------------------------------------------
(* Inputs of the routing policy *)

LegacySources ==
    {<<"/", "fr", "/", "trademarks">>, <<"/", "de", "/", "trademarks">>,
     <<"/", "es", "/", "trademarks">>, <<"/", "trademarks">>}

LegacyTargets ==
    {<<"/", "trademarks">>, <<"/", "en", "/", "trademarks">>, <<"/", "en", "/", "pricing">>}

\* the configuration of the repository and its variations
LegacyConfigs ==
    {redirects} \cup UNION {[D -> LegacyTargets] : D \in SUBSET LegacySources}

RequestPaths ==
    {BareUrl(p) : p \in PageUniverse}
    \cup {LocalizedUrl(l, p) : l \in I18nLocaleSet \cup {<<"xx">>}, p \in PageUniverse}
    \cup LegacySources \cup LegacyTargets

RouteIdle ==
    /\ legacyRedirects = redirects
    /\ pages = {}
    /\ buildStatus = "pending"
    /\ redirectTable = {}
    /\ sitemap = {}
    /\ warnings = {}
    /\ routes = {}
    /\ reqPath = <<>>
    /\ response = NoResponse
    /\ hops = 0

-----------------------------------------------------------------------------
(* Render workers: callers of the module's functions, each holding its own  *)
(* closure; a call runs to completion before another call starts.           *)

Workers == {"w1", "w2"}

WorkerLocales == {<<"en">>, <<"fr">>, <<"xx">>}

WorkerKeys == {<<>>, <<"a">>, <<"a", ".", "a">>, <<"constructor">>}

WorkerPaths == {<<"/", "fr", "/", "pricing">>, <<"/", "pricing">>}

WorkerCodes == {<<"fr">>, <<"FR">>}

\* the bundles whose default dictionary is {a: "x"}
WorkerBundles ==
    {b \in Bundles : b.props[<<"en">>] = Obj(<<"a">> :> Str(<<"x">>))}

\* a JavaScript boolean
Bool(b) ==
    [kind |-> "boolean", str |-> IF b THEN <<"true">> ELSE <<"false">>,
     props |-> NoProps, proto |-> FALSE]

IdleWorker ==
    [pc |-> "start", locale |-> <<>>, dict |-> Undefined, arg |-> <<>>, result |-> Undefined]

WorkersIdle == workers = [w \in Workers |-> IdleWorker]

-----------------------------------------------------------------------------
(* Specification of the translator: a bundle is loaded, closures are made   *)
(* and called, one synchronous call at a time.                              *)

Init ==
    /\ translations \in Bundles
    /\ dict = Undefined
    /\ tLocale = <<>>
    /\ key = <<>>
    /\ result = Undefined
    /\ pathname = <<>>
    /\ urlLocale = Undefined
    /\ pc = "start"
    /\ RegistryIdle
    /\ RouteIdle
    /\ WorkersIdle

\* useTranslations(locale): captures dict and hands back the closure t
UseTranslations ==
    /\ pc \in {"start", "ready"}
    /\ \E locale \in LocaleArgs :
        /\ tLocale' = locale
        /\ dict' = useTranslations(locale)
    /\ pc' = "ready"
    /\ UNCHANGED <<workers, translations, key, result, pathname, urlLocale, registryVars, routeVars>>

\* t(key) on the closure held
T ==
    /\ pc = "ready"
    /\ \E k \in Keys :
        /\ key' = k
        /\ result' = t(dict, k)
    /\ pc' = "returned"
    /\ UNCHANGED <<workers, translations, dict, tLocale, pathname, urlLocale, registryVars, routeVars>>

\* the caller takes the string t returned; the closure stays callable
Return ==
    /\ pc = "returned"
    /\ key' = <<>>
    /\ result' = Undefined
    /\ pc' = "ready"
    /\ UNCHANGED <<workers, translations, dict, tLocale, pathname, urlLocale, registryVars, routeVars>>

Next == UseTranslations \/ T \/ Return

Spec == Init /\ [][Next]_vars

-----------------------------------------------------------------------------
(* Specification of the URL locale extractor *)

ReferenceBundle ==
    Obj(<<"en">> :> Obj(<<"a">> :> Str(<<"x">>)) @@ <<"fr">> :> Obj(<<"a">> :> Str(<<"y">>))
        @@ <<"de">> :> DeDictionary @@ <<"es">> :> EsDictionary)

InitUrl ==
    /\ translations = ReferenceBundle
    /\ dict = Undefined
    /\ tLocale = <<>>
    /\ key = <<>>
    /\ result = Undefined
    /\ pathname = <<>>
    /\ urlLocale = Undefined
    /\ pc = "start"
    /\ RegistryIdle
    /\ RouteIdle
    /\ WorkersIdle

\* getLocaleFromUrl(url), url.pathname being any path
GetLocaleFromUrl ==
    /\ pc = "start"
    /\ \E p \in Paths :
        /\ pathname' = p
        /\ urlLocale' = getLocaleFromUrl(p)
    /\ pc' = "url"
    /\ UNCHANGED <<workers, translations, dict, tLocale, key, result, registryVars, routeVars>>

\* the caller takes the locale
ReturnUrl ==
    /\ pc = "url"
    /\ pathname' = <<>>
    /\ urlLocale' = Undefined
    /\ pc' = "start"
    /\ UNCHANGED <<workers, translations, dict, tLocale, key, result, registryVars, routeVars>>

NextUrl == GetLocaleFromUrl \/ ReturnUrl

SpecUrl == InitUrl /\ [][NextUrl]_vars

-----------------------------------------------------------------------------
(* Specification of the locale registry *)

\* isValidLocale(locale), locale being any string
IsValidLocale ==
    /\ pc = "start"
    /\ \E c \in Codes :
        /\ code' = c
        /\ valid' = isValidLocale(c)
    /\ pc' = "valid"
    /\ UNCHANGED <<workers, translations, dict, tLocale, key, result, pathname, urlLocale,
                   routeVars>>

\* the caller takes the answer
ReturnValid ==
    /\ pc = "valid"
    /\ code' = <<>>
    /\ valid' = FALSE
    /\ pc' = "start"
    /\ UNCHANGED <<workers, translations, dict, tLocale, key, result, pathname, urlLocale,
                   routeVars>>

NextRegistry == IsValidLocale \/ ReturnValid

SpecRegistry == InitUrl /\ [][NextRegistry]_vars

-----------------------------------------------------------------------------
(* Specification of the routing policy: one build of a configuration and a  *)
(* page set, then requests against what it emitted.                         *)

InitRoute ==
    /\ translations = ReferenceBundle
    /\ dict = Undefined
    /\ tLocale = <<>>
    /\ key = <<>>
    /\ result = Undefined
    /\ pathname = <<>>
    /\ urlLocale = Undefined
    /\ pc = "start"
    /\ RegistryIdle
    /\ WorkersIdle
    /\ legacyRedirects \in LegacyConfigs
    /\ pages \in SUBSET PageUniverse
    /\ buildStatus = "pending"
    /\ redirectTable = {}
    /\ sitemap = {}
    /\ warnings = {}
    /\ routes = {}
    /\ reqPath = <<>>
    /\ response = NoResponse
    /\ hops = 0

\* the build: it stops on a fatal condition and emits nothing, or emits the
\* routes, the redirect table, the sitemap entries and the warnings
Build ==
    /\ pc = "start"
    /\ IF BuildFails(legacyRedirects, pages)
       THEN /\ buildStatus' = "failed"
            /\ redirectTable' = {}
            /\ sitemap' = {}
            /\ warnings' = {}
            /\ routes' = {}
       ELSE /\ buildStatus' = "ok"
            /\ redirectTable' = AllRules(legacyRedirects, pages)
            /\ sitemap' = SitemapEntries(pages)
            /\ warnings' = LegacyWarnings(legacyRedirects, pages)
            /\ routes' = GeneratedRoutes(pages)
    /\ pc' = "built"
    /\ UNCHANGED <<workers, translations, dict, tLocale, key, result, pathname, urlLocale,
                   registryVars, legacyRedirects, pages, reqPath, response, hops>>

\* a request to the built site
Request ==
    /\ pc = "built"
    /\ buildStatus = "ok"
    /\ \E path \in RequestPaths :
        /\ reqPath' = path
        /\ response' = Resolve(redirectTable, routes, path)
    /\ hops' = 0
    /\ pc' = "served"
    /\ UNCHANGED <<workers, translations, dict, tLocale, key, result, pathname, urlLocale,
                   registryVars, legacyRedirects, pages, buildStatus, redirectTable,
                   sitemap, warnings, routes>>

\* the locale of the path at hand is inferred, as a page or a handler does
\* with getLocaleFromUrl(url)
InferLocale ==
    /\ pc = "served"
    /\ pathname # reqPath
    /\ pathname' = reqPath
    /\ urlLocale' = getLocaleFromUrl(reqPath)
    /\ UNCHANGED <<workers, translations, dict, tLocale, key, result, pc, registryVars,
                   routeVars>>

\* the response is sent
Respond ==
    /\ pc = "served"
    /\ reqPath' = <<>>
    /\ response' = NoResponse
    /\ hops' = 0
    /\ pathname' = <<>>
    /\ urlLocale' = Undefined
    /\ pc' = "built"
    /\ UNCHANGED <<workers, translations, dict, tLocale, key, result,
                   registryVars, legacyRedirects, pages, buildStatus, redirectTable,
                   sitemap, warnings, routes>>

\* the client follows the redirect it was answered with
Follow ==
    /\ pc = "served"
    /\ response.kind = "redirect"
    /\ hops < MaxHops
    /\ reqPath' = response.target
    /\ response' = Resolve(redirectTable, routes, response.target)
    /\ hops' = hops + 1
    /\ UNCHANGED <<workers, translations, dict, tLocale, key, result, pathname, urlLocale,
                   pc, registryVars, legacyRedirects, pages, buildStatus, redirectTable,
                   sitemap, warnings, routes>>

NextRoute == Build \/ Request \/ InferLocale \/ Follow \/ Respond

SpecRoute == InitRoute /\ [][NextRoute]_vars

-----------------------------------------------------------------------------
(* Specification of the key walk: getNestedValue on one dictionary, as t    *)
(* calls it, for keys that may name members of Object.prototype.            *)

LookupUnits == {"a", ".", "constructor", "__proto__"}

LookupKeys == SeqsUpTo(LookupUnits, MaxKeyLen)

InitLookup ==
    /\ translations = ReferenceBundle
    /\ dict \in Dictionaries
    /\ tLocale = <<>>
    /\ key = <<>>
    /\ result = Undefined
    /\ pathname = <<>>
    /\ urlLocale = Undefined
    /\ pc = "start"
    /\ RegistryIdle
    /\ RouteIdle
    /\ WorkersIdle

\* getNestedValue(dict, key.split('.'))
GetNestedValue ==
    /\ pc = "start"
    /\ \E k \in LookupKeys :
        /\ key' = k
        /\ result' = getNestedValue(dict, split(k, "."))
    /\ pc' = "walked"
    /\ UNCHANGED <<workers, translations, dict, tLocale, pathname, urlLocale, registryVars,
                   routeVars>>

\* the caller takes the value
ReturnLookup ==
    /\ pc = "walked"
    /\ key' = <<>>
    /\ result' = Undefined
    /\ pc' = "start"
    /\ UNCHANGED <<workers, translations, dict, tLocale, pathname, urlLocale, registryVars,
                   routeVars>>

NextLookup == GetNestedValue \/ ReturnLookup

SpecLookup == InitLookup /\ [][NextLookup]_vars

-----------------------------------------------------------------------------
(* Specification of the render workers: one loaded bundle, several workers  *)
(* calling the module's functions in any order.                             *)

InitWorkers ==
    /\ translations \in WorkerBundles
    /\ dict = Undefined
    /\ tLocale = <<>>
    /\ key = <<>>
    /\ result = Undefined
    /\ pathname = <<>>
    /\ urlLocale = Undefined
    /\ pc = "start"
    /\ RegistryIdle
    /\ RouteIdle
    /\ WorkersIdle

WorkerFrame ==
    UNCHANGED <<translations, dict, tLocale, key, result, pathname, urlLocale, pc,
                registryVars, routeVars>>

\* useTranslations with dict kept in one module-level variable that every
\* closure reads
WorkerUseTranslations_SharedDict(w) ==
    /\ workers[w].pc \in {"start", "ready"}
    /\ \E locale \in WorkerLocales :
        workers' = [v \in Workers |->
                       IF v = w
                       THEN [workers[v] EXCEPT !.pc = "ready", !.locale = locale,
                                               !.dict = useTranslations(locale)]
                       ELSE [workers[v] EXCEPT !.dict = useTranslations(locale)]]
    /\ WorkerFrame

\* worker w calls useTranslations(locale): const dict is local to the call
WorkerUseTranslations(w) ==
    /\ workers[w].pc \in {"start", "ready"}
    /\ \E locale \in WorkerLocales :
        workers' = [workers EXCEPT ![w] = [@ EXCEPT !.pc = "ready", !.locale = locale,
                                                    !.dict = useTranslations(locale)]]
    /\ WorkerFrame

\* worker w calls the closure it holds
WorkerT(w) ==
    /\ workers[w].pc = "ready"
    /\ \E k \in WorkerKeys :
        workers' = [workers EXCEPT ![w] = [@ EXCEPT !.pc = "returned", !.arg = k,
                                                    !.result = t(workers[w].dict, k)]]
    /\ WorkerFrame

\* worker w calls getLocaleFromUrl
WorkerGetLocaleFromUrl(w) ==
    /\ workers[w].pc \in {"start", "ready"}
    /\ \E p \in WorkerPaths :
        workers' = [workers EXCEPT ![w] = [@ EXCEPT !.pc = "url", !.arg = p,
                                                    !.result = getLocaleFromUrl(p)]]
    /\ WorkerFrame

\* worker w calls isValidLocale
WorkerIsValidLocale(w) ==
    /\ workers[w].pc \in {"start", "ready"}
    /\ \E c \in WorkerCodes :
        workers' = [workers EXCEPT ![w] = [@ EXCEPT !.pc = "valid", !.arg = c,
                                                    !.result = Bool(isValidLocale(c))]]
    /\ WorkerFrame

\* worker w takes what the call returned; a closure it holds stays callable
WorkerReturn(w) ==
    /\ workers[w].pc \in {"returned", "url", "valid"}
    /\ workers' = [workers EXCEPT ![w] = [@ EXCEPT
                       !.pc = IF workers[w].dict = Undefined THEN "start" ELSE "ready",
                       !.arg = <<>>, !.result = Undefined]]
    /\ WorkerFrame

NextWorkers ==
    \E w \in Workers :
        \/ WorkerUseTranslations(w)
        \/ WorkerT(w)
        \/ WorkerGetLocaleFromUrl(w)
        \/ WorkerIsValidLocale(w)
        \/ WorkerReturn(w)

SpecWorkers == InitWorkers /\ [][NextWorkers]_vars

-----------------------------------------------------------------------------
(* Vocabulary of the properties: the dictionary tree of a locale and the    *)
(* node a key path names in it, read off the tree's own entries.            *)

TreeOf(locale) == translations.props[locale]

DefaultTree == TreeOf(DEFAULT_LOCALE)

Segments(k) == split(k, ".")

\* the node at a path of a tree, Undefined when the path leaves the tree
RECURSIVE NodeAt(_, _)
NodeAt(tree, segs) ==
    IF segs = <<>> THEN tree
    ELSE IF tree.kind = "object" /\ Head(segs) \in DOMAIN tree.props
         THEN NodeAt(tree.props[Head(segs)], Tail(segs))
    ELSE Undefined

Present(tree, k) == NodeAt(tree, Segments(k)) # Undefined

IsLeafString(tree, k) == NodeAt(tree, Segments(k)).kind = "string"

NonEmptyString(v) == v.kind = "string" /\ v.str # <<>>

\* useTranslations(DEFAULT_LOCALE)(k)
DefaultTranslation(k) == t(useTranslations(DEFAULT_LOCALE), k)

\* the units of a path up to its first "/"
RECURSIVE UpToSlash(_)
UpToSlash(p) ==
    IF p = <<>> \/ Head(p) = "/" THEN <<>>
    ELSE <<Head(p)>> \o UpToSlash(Tail(p))

\* the first non-empty segment of a path, <<>> when it has none
RECURSIVE FirstNonEmptySegment(_)
FirstNonEmptySegment(p) ==
    IF p = <<>> THEN <<>>
    ELSE IF Head(p) = "/" THEN FirstNonEmptySegment(Tail(p))
    ELSE UpToSlash(p)

LocaleOrDefault(seg) == IF seg \in LocaleSet THEN Str(seg) ELSE Str(DEFAULT_LOCALE)

-----------------------------------------------------------------------------
(* Properties of the translator *)

\* C1: for every registered locale L and every key path K present in the
\* default locale's tree, useTranslations(L)(K) is a non-empty string.
C1_NonEmptyOnDefaultKeys ==
    (pc = "returned" /\ tLocale \in LocaleSet /\ Present(DefaultTree, key))
        => NonEmptyString(result)

\* C2: if K resolves to a leaf string in the default tree and is absent from
\* L's tree, useTranslations(L)(K) equals useTranslations(DEFAULT_LOCALE)(K).
C2_AbsentFallsBackToDefault ==
    (/\ pc = "returned"
     /\ tLocale \in LocaleSet
     /\ IsLeafString(DefaultTree, key)
     /\ ~Present(TreeOf(tLocale), key))
        => result = DefaultTranslation(key)

\* C3: when K is found in L's tree with a value that is not a leaf string and
\* K resolves to a leaf string in the default tree, the default-locale string
\* is returned.
C3_NonLeafFallsBackToDefault ==
    (/\ pc = "returned"
     /\ tLocale \in LocaleSet
     /\ Present(TreeOf(tLocale), key)
     /\ ~IsLeafString(TreeOf(tLocale), key)
     /\ IsLeafString(DefaultTree, key))
        => result = NodeAt(DefaultTree, Segments(key))

\* C4: useTranslations(DEFAULT_LOCALE)(K) is exactly the leaf string stored at
\* path K of the default dictionary, for every K that resolves to a leaf string.
C4_DefaultReturnsStoredLeaf ==
    (pc = "returned" /\ tLocale = DEFAULT_LOCALE /\ IsLeafString(DefaultTree, key))
        => result = NodeAt(DefaultTree, Segments(key))

\* C4 witness: the default locale's closure returned a nested, non-empty leaf
C4_Witness ==
    /\ pc = "returned"
    /\ tLocale = DEFAULT_LOCALE
    /\ Len(Segments(key)) = 2
    /\ IsLeafString(DefaultTree, key)
    /\ result = Str(<<"y">>)

\* C5: if K resolves to a leaf string neither in L's tree nor in the default
\* tree, useTranslations(L)(K) is K itself.
C5_MissReturnsKey ==
    (/\ pc = "returned"
     /\ tLocale \in LocaleSet
     /\ ~IsLeafString(TreeOf(tLocale), key)
     /\ ~IsLeafString(DefaultTree, key))
        => result = Str(key)

\* C5 witness: K names an internal node in L's tree and is absent from the
\* default tree, and K came back
C5_Witness ==
    /\ pc = "returned"
    /\ tLocale = <<"fr">>
    /\ key = <<"a">>
    /\ NodeAt(TreeOf(tLocale), Segments(key)).kind = "object"
    /\ ~Present(DefaultTree, key)
    /\ result = Str(key)

\* C6: for every locale and every key string, useTranslations(locale)(key) is
\* a string that is neither undefined nor empty.
C6_TotalNonEmpty ==
    pc = "returned" => NonEmptyString(result)

\* C7: for a locale that is not in the bundle, the returned function gives,
\* for every key, the same result as useTranslations(DEFAULT_LOCALE).
C7_UnknownLocaleIsDefault ==
    (pc = "returned" /\ tLocale \notin LocaleSet)
        => result = DefaultTranslation(key)

-----------------------------------------------------------------------------
(* Properties of the URL locale extractor *)

\* C8: getLocaleFromUrl returns the first non-empty segment of the path when
\* it is a registered locale code and the default locale otherwise, for every
\* path shape.
C8_FirstNonEmptySegment ==
    pc = "url" => urlLocale = LocaleOrDefault(FirstNonEmptySegment(pathname))

\* C9: for a path /<seg>/<rest> (or /<seg>, or /), getLocaleFromUrl returns
\* <seg> when it is a registered locale and the default locale otherwise.
C9_SegmentAfterLeadingSlash ==
    (pc = "url" /\ pathname # <<>> /\ Head(pathname) = "/")
        => urlLocale = LocaleOrDefault(UpToSlash(Tail(pathname)))

\* C9 witness: "/fr/pricing" gave fr
C9_Witness ==
    /\ pc = "url"
    /\ pathname = <<"/", "fr", "/", "pricing">>
    /\ urlLocale = Str(<<"fr">>)

\* C10: the result of getLocaleFromUrl is always a member of LOCALES, whatever
\* the path.
C10_ResultIsRegistered ==
    pc = "url" => (urlLocale.kind = "string" /\ urlLocale.str \in LocaleSet)

\* C10 witness: the empty path gave the default locale
C10_Witness ==
    /\ pc = "url"
    /\ pathname = <<>>
    /\ urlLocale = Str(DEFAULT_LOCALE)

-----------------------------------------------------------------------------
(* Properties of the locale registry *)

\* C11: isValidLocale(code) is true if and only if code is exactly one of the
\* registered locale codes; "FR", "fr-FR" and the empty string are invalid.
C11_ValidIffRegistered ==
    pc = "valid" =>
        /\ valid <=> code \in {<<"en">>, <<"fr">>, <<"de">>, <<"es">>}
        /\ code \in {<<"FR">>, <<"fr", "-FR">>, <<>>} => ~valid

\* C11 witness: "fr-FR" was found invalid
C11_Witness ==
    /\ pc = "valid"
    /\ code = <<"fr", "-FR">>
    /\ valid = FALSE

\* C12: a request to the unprefixed form /<page> of a logical page is redirected
\* to /<defaultLocale>/<page>, /trademarks to /en/trademarks, whatever else
\* the request or the configuration holds.
C12_BareRedirectsToDefault ==
    pc = "served" =>
        \A p \in pages :
            reqPath = <<"/">> \o p =>
                /\ response.kind = "redirect"
                /\ response.target = <<"/">> \o DEFAULT_LOCALE \o <<"/">> \o p

\* C12 witness: /trademarks was redirected to /en/trademarks by the default-locale rule
C12_Witness ==
    /\ pc = "served"
    /\ <<"trademarks">> \in pages
    /\ reqPath = <<"/", "trademarks">>
    /\ response = [kind |-> "redirect", target |-> <<"/", "en", "/", "trademarks">>,
                   via |-> "default-locale"]

C14_ExactlyListedSources ==
    (pc = "served" /\ legacyRedirects = redirects) =>
        /\ response.via = "legacy" <=>
               reqPath \in {<<"/", "fr", "/", "trademarks">>,
                            <<"/", "de", "/", "trademarks">>,
                            <<"/", "es", "/", "trademarks">>}
        /\ response.via = "legacy" =>
               /\ response.kind = "redirect"
               /\ response.target = <<"/", "trademarks">>

\* C14 witness: with the redirects of the configuration and a trademarks page
\* in every locale, /en/trademarks was served as a page
C14_Witness ==
    /\ pc = "served"
    /\ legacyRedirects = redirects
    /\ reqPath = <<"/", "en", "/", "trademarks">>
    /\ response.kind = "page"

C16_OneEntryPerLocale ==
    (pc \in {"built", "served"} /\ buildStatus = "ok") =>
        \A p \in pages :
            LET localized == {e \in sitemap : e.page = p /\ e.hreflang # <<"x-default">>}
                xdefault == {e \in sitemap : e.page = p /\ e.hreflang = <<"x-default">>}
            IN  /\ Cardinality(localized) = 4
                /\ Cardinality(localized) = Len(LOCALES)
                /\ {e.locale : e \in localized} = LocaleSet
                /\ {e.hreflang : e \in localized} = LocaleSet
                /\ \A e \in localized : e.href = <<"/">> \o e.locale \o <<"/">> \o p
                /\ Cardinality(xdefault) = 1
                /\ \A e \in xdefault : e.href = <<"/">> \o DEFAULT_LOCALE \o <<"/">> \o p

\* C16 witness: a site of three logical pages, pricing among them, with its
\* fifteen entries
C16_Witness ==
    /\ pc = "built"
    /\ buildStatus = "ok"
    /\ <<"pricing">> \in pages
    /\ Cardinality(pages) = 3
    /\ Cardinality(sitemap) = 15

\* C17: every URL a successful build advertises in the sitemap is a generated
\* page and is not the source of a redirect rule, for every logical page,
\* trademarks included, and every locale.
C17_AdvertisedUrlsAreCompiledPages ==
    (pc \in {"built", "served"} /\ buildStatus = "ok") =>
        \A e \in sitemap :
            /\ e.href \in routes
            /\ \A r \in redirectTable : r.source # e.href

\* starts with /<locale>/ for a registered locale
HasLocalePrefix(url) ==
    /\ Len(url) >= 3
    /\ url[1] = "/"
    /\ <<url[2]>> \in LocaleSet
    /\ url[3] = "/"

-----------------------------------------------------------------------------
(* Properties of the module as a whole *)

\* what each kind of call returns when it runs alone on the loaded bundle
ReturnsAsAlone(w) ==
    /\ workers[w].pc = "returned" =>
           workers[w].result = t(useTranslations(workers[w].locale), workers[w].arg)
    /\ workers[w].pc = "url" => workers[w].result = getLocaleFromUrl(workers[w].arg)
    /\ workers[w].pc = "valid" => workers[w].result = Bool(isValidLocale(workers[w].arg))

\* C21: no call of useTranslations, t, getLocaleFromUrl or isValidLocale changes
\* the translation bundle, and in every interleaving of the calls of several
\* workers each call returns what it returns when run alone.
C21_ReadOnlyAndReentrant ==
    /\ [][translations' = translations]_vars
    /\ [](\A w \in Workers : ReturnsAsAlone(w))

\* C21 witness: two workers hold closures of different locales and both have
\* just translated the key "a", each to its own locale's string
C21_Witness ==
    /\ workers["w1"].pc = "returned"
    /\ workers["w2"].pc = "returned"
    /\ workers["w1"].locale = <<"fr">>
    /\ workers["w2"].locale = <<"en">>
    /\ workers["w1"].arg = <<"a">>
    /\ workers["w2"].arg = <<"a">>
    /\ workers["w1"].result = Str(<<"y">>)
    /\ workers["w2"].result = Str(<<"x">>)

\* C22: exactly one member of LOCALES is the default locale; the translation
\* bundle and LOCALE_NAMES have an entry for every member of LOCALES and for no
\* other code; the locale list and the default locale of the routing
\* configuration and of the sitemap configuration are LOCALES and
\* DEFAULT_LOCALE.
C22_RegistryConsistent ==
    /\ Cardinality({i \in 1..Len(LOCALES) : LOCALES[i] = DEFAULT_LOCALE}) = 1
    /\ Cardinality(LocaleSet) = Len(LOCALES)
    /\ DOMAIN translations.props = LocaleSet
    /\ DOMAIN LOCALE_NAMES = LocaleSet
    /\ i18nLocales = LOCALES
    /\ i18nDefaultLocale = DEFAULT_LOCALE
    /\ DOMAIN sitemapLocales = LocaleSet
    /\ sitemapDefaultLocale = DEFAULT_LOCALE

\* C22 witness: a build over the loaded bundle passed the locale-set check and
\* advertised every page in exactly the registered locales
C22_Witness ==
    /\ pc = "built"
    /\ buildStatus = "ok"
    /\ pages # {}
    /\ {e.locale : e \in sitemap} = LocaleSet
    /\ {u[2] : u \in routes} = {l[1] : l \in LocaleSet}
    /\ DOMAIN translations.props = LocaleSet

-----------------------------------------------------------------------------
(* Further properties of the translator *)

\* C23: if K resolves to a leaf string in the own tree of a registered locale
\* L, useTranslations(L)(K) is that string, whatever the default tree holds at
\* K: another string, an internal node or nothing.
C23_OwnLeafWins ==
    (pc = "returned" /\ tLocale \in LocaleSet /\ IsLeafString(TreeOf(tLocale), key))
        => result = NodeAt(TreeOf(tLocale), Segments(key))

\* C23 witness: fr holds "y" at the key, the default tree holds "x" there, and
\* the fr closure returned "y"
C23_Witness ==
    /\ pc = "returned"
    /\ tLocale = <<"fr">>
    /\ NodeAt(TreeOf(tLocale), Segments(key)) = Str(<<"y">>)
    /\ NodeAt(DefaultTree, Segments(key)) = Str(<<"x">>)
    /\ result = Str(<<"y">>)

\* some proper prefix of the segments is missing from the tree or names a leaf
\* string of it
BlockedPrefix(tree, segs) ==
    \E n \in 1..(Len(segs) - 1) :
        LET node == NodeAt(tree, SubSeq(segs, 1, n))
        IN  node = Undefined \/ node.kind = "string"

\* C24: if a proper prefix of K is missing from the tree or resolves there to
\* a leaf string, the lookup of K in the tree is "not found" (undefined),
\* whatever the remaining segments are.
C24_WalkStopsAtBlockedPrefix ==
    (pc = "walked" /\ BlockedPrefix(dict, Segments(key))) => result = Undefined

-----------------------------------------------------------------------------
(* Further properties of the routing policy *)

\* following redirects from a path ends on a path without a redirect rule
\* within fuel hops
RECURSIVE FollowEnds(_, _, _, _)
FollowEnds(table, rts, path, fuel) ==
    LET r == Resolve(table, rts, path)
    IN  \/ r.kind # "redirect"
        \/ fuel > 0 /\ FollowEnds(table, rts, r.target, fuel - 1)

\* a table of n rules without a cycle redirects a request at most n times
Terminates(table, rts, path) == FollowEnds(table, rts, path, Cardinality(table))

C26_GeneratedUrlGivesItsLocale ==
    (pc = "served" /\ pathname = reqPath) =>
        \A l \in LocaleSet, p \in pages :
            (pathname = <<"/">> \o l \o <<"/">> \o p /\ pathname \in routes)
                => urlLocale = Str(l)

\* C26 witness: /de/pricing is a generated page and its locale was inferred as de
C26_Witness ==
    /\ pc = "served"
    /\ response.kind = "page"
    /\ pathname = <<"/", "de", "/", "pricing">>
    /\ pathname = reqPath
    /\ urlLocale = Str(<<"de">>)

\* C27: when /<page> is redirected by the default-locale rule to
\* /<defaultLocale>/<page> and the first segment of the page is no registered
\* locale code, getLocaleFromUrl gives the default locale for the source and
\* for the target.
C27_DefaultRedirectKeepsLocale ==
    pc = "served" =>
        \A p \in pages :
            (/\ pathname = <<"/">> \o p
             /\ reqPath = <<"/">> \o DEFAULT_LOCALE \o <<"/">> \o p
             /\ UpToSlash(p) \notin LocaleSet
             /\ hops >= 1)
                => /\ urlLocale = Str(DEFAULT_LOCALE)
                   /\ getLocaleFromUrl(reqPath) = Str(DEFAULT_LOCALE)

\* C27 witness: the locale of /pricing was inferred as en, and the client was
\* then redirected by the default-locale rule to /en/pricing
C27_Witness ==
    /\ pc = "served"
    /\ hops = 1
    /\ pathname = <<"/", "pricing">>
    /\ urlLocale = Str(<<"en">>)
    /\ reqPath = <<"/", "en", "/", "pricing">>
    /\ [source |-> pathname, target |-> reqPath, type |-> "default-locale"] \in redirectTable

-----------------------------------------------------------------------------
(* The translator over a bundle other than the loaded one *)

\* useTranslations(locale), had the module been loaded with bundle
useTranslationsIn(bundle, locale) ==
    LET own == Get(bundle, locale)
    IN  IF Truthy(own) THEN own ELSE Get(bundle, DEFAULT_LOCALE)

\* t(key) over dict d, had the module been loaded with bundle
tIn(bundle, d, k) ==
    LET keys == split(k, ".")
        first == getNestedValue(d, keys)
        res == IF first = Undefined
               THEN getNestedValue(Get(bundle, DEFAULT_LOCALE), keys)
               ELSE first
    IN  IF TypeOf(res) = "string" THEN res ELSE Str(k)

\* dictionaries put in the place of the other locales'
OtherDictionaries ==
    {Obj(NoProps), Obj(<<"a">> :> Str(<<"y">>) @@ <<"constructor">> :> Str(<<"x">>)),
     Obj(<<"a">> :> Obj(<<"a">> :> Str(<<"x">>)))}

\* the bundles that agree with the loaded one on locale's tree and on the
\* default tree and hold one of OtherDictionaries for every other locale
AgreeingBundles(locale) ==
    {Obj([l \in LocaleSet |->
              IF l \in {locale, DEFAULT_LOCALE} THEN TreeOf(l) ELSE d]) :
        d \in OtherDictionaries}

\* C28: useTranslations(L)(K) is the same in every bundle that agrees with the
\* loaded one on L's tree and on the default locale's tree, however the trees
\* of the other locales differ.
C28_OnlyOwnAndDefaultTreesMatter ==
    (pc = "returned" /\ tLocale \in LocaleSet) =>
        \A b \in AgreeingBundles(tLocale) :
            result = tIn(b, useTranslationsIn(b, tLocale), key)

\* C28 witness: es and en miss the key "a", fr holds a string there, and the
\* es closure returned the key, not the French string
C28_Witness ==
    /\ pc = "returned"
    /\ tLocale = <<"es">>
    /\ key = <<"a">>
    /\ ~Present(DefaultTree, key)
    /\ IsLeafString(TreeOf(<<"fr">>), key)
    /\ result = Str(key)

====
